---- MODULE Spec2Model ----
(***************************************************************************)
(* Dimension-adaptive stochastic-collocation refinement of the blob2d      *)
(* campaign (b2duq.py): refine_sampling_plan, refine_to_precision,         *)
(* refine_campaign and analyse_campaign, driving the sampler / analysis    *)
(* objects (accepted set l_norm, admissible set, samples, adaptation-error *)
(* history).                                                               *)
(***************************************************************************)
EXTENDS Integers, Sequences, FiniteSets, TLC

(***************************************************************************)
(* Bounds of the model.                                                    *)
(***************************************************************************)
\* minrefs and maxrefs of a call range over 0..MaxRefs
MaxRefs == 2
\* the velocity list of a decoded run has 1..MaxVels elements
MaxVels == 3
\* values a CoM velocity can take
VelocityValues == {-1, 0, 1, 2}

\* surplus magnitudes an ensemble can yield for an admissible index
SurplusValues == {0, 2}

\* QoI values the first sample (the normalisation of the error) can have
SampleValues == {1, 2}

(***************************************************************************)
(* Parameter space and QoIs.                                               *)
(***************************************************************************)
\* the uncertain parameters of the two-dimensional space, in order
Dimensions == <<"Te0", "width">>

NDims == Len(Dimensions)

\* the two QoIs refine_campaign refines for, in the order of its two passes
QoIs == <<"maxV", "maxX">>

\* variant: refine_sampling_plan asked for two refinements per call
NumberOfRefinements_Two == 1 + 1

\* number_of_refinements that refine_to_precision hands to refine_sampling_plan
NumberOfRefinements == 1

\* tolerances tried, as rationals <<numerator, denominator>>: 0.01 is the one
\* refine_campaign passes; 1 is the initial error and 2 lies above it
Tolerances == {<<1, 100>>, <<1, 1>>, <<2, 1>>}

\* a > b for rationals <<n, d>> with d > 0
GT(a, b) == a[1] * b[2] > b[1] * a[2]

\* a <= b for rationals
LE(a, b) == ~GT(a, b)

RECURSIVE Pow2(_)
Pow2(n) == IF n = 0 THEN 1 ELSE 2 * Pow2(n - 1)

(***************************************************************************)
(* Multi-index set manager.                                                *)
(***************************************************************************)
ZeroIndex == [d \in 1..NDims |-> 0]

RECURSIVE SumTo(_, _)
SumTo(l, d) == IF d = 0 THEN 0 ELSE l[d] + SumTo(l, d - 1)

IndexSum(l) == SumTo(l, NDims)

\* l before m in lexicographic order
LexLess(l, m) ==
    \E d \in 1..NDims : l[d] < m[d] /\ \A e \in 1..(d - 1) : l[e] = m[e]

ForwardNeighbours(l) == {[l EXCEPT ![d] = l[d] + 1] : d \in 1..NDims}

BackwardNeighbours(l) ==
    {[l EXCEPT ![d] = l[d] - 1] : d \in {e \in 1..NDims : l[e] > 0}}

\* look_ahead(L): forward neighbours of L, not in L, all backward neighbours in L
look_ahead(L) ==
    {c \in UNION {ForwardNeighbours(l) : l \in L} :
        c \notin L /\ BackwardNeighbours(c) \subseteq L}

DownwardClosed(L) == \A l \in L : BackwardNeighbours(l) \subseteq L

(***************************************************************************)
(* Quadrature rule and grid: nested rule, one point at level 0, doubling.  *)
(* An abscissa <<k, j>> stands for the node k / 2^j of the unit interval.  *)
(***************************************************************************)
NewAbscissas(level) ==
    IF level = 0 THEN {<<1, 1>>}
    ELSE IF level = 1 THEN {<<0, 0>>, <<1, 0>>}
    ELSE {<<k, level>> : k \in {i \in 1..(Pow2(level) - 1) : i % 2 = 1}}

rule(level) == UNION {NewAbscissas(k) : k \in 0..level}

RECURSIVE Tensor(_, _)
Tensor(l, d) ==
    IF d = 0 THEN {<<>>}
    ELSE {Append(p, a) : p \in Tensor(l, d - 1), a \in rule(l[d])}

\* generate_grid(L): union of the full tensor grids of the indices of L
generate_grid(L) == UNION {Tensor(l, NDims) : l \in L}

(***************************************************************************)
(* Program state.                                                          *)
(***************************************************************************)
VARIABLES
    pc,                \* position of the program
    pass,              \* which QoI pass of refine_campaign runs (index into QoIs)
    tol,               \* refine_to_precision: tol
    minrefs,           \* refine_to_precision: minrefs
    maxrefs,           \* refine_to_precision: maxrefs
    counter,           \* refine_to_precision: counter
    error,             \* refine_to_precision: error, a rational <<n, d>>
    i,                 \* refine_sampling_plan: loop variable
    l_norm,            \* analysis.l_norm, the accepted set
    admissible_idx,    \* sampler.admissible_idx, the admissible set
    samples,           \* points with a collated result
    samples0,          \* analysis.samples[param][0] for each QoI
    requested,         \* points of the ensemble being run
    outstanding,       \* number of runs of the ensemble that have not returned
    adaptation_errors, \* analysis.get_adaptation_errors()
    returned,          \* values returned by refine_to_precision (atRefs, mlRefs)
    history_at_call,   \* length of adaptation_errors when the current call began
    state_file,        \* analysis.state as written by save_state
    analysed_l_norm,   \* the accepted set analysis.analyse last worked on
    look_aheads,       \* number of look_ahead calls made so far
    dpc,               \* position of the decoder in the run being decoded
    vels,              \* get_blob_info: list(v_x), the CoM velocities of the run
    blobInfo           \* get_blob_info: blobInfo

vars == <<pc, pass, tol, minrefs, maxrefs, counter, error, i, l_norm,
          admissible_idx, samples, samples0, requested, outstanding,
          adaptation_errors, returned, history_at_call, state_file,
          analysed_l_norm, look_aheads, dpc, vels, blobInfo>>

\* the variables of the decoder
decoder == <<dpc, vels, blobInfo>>

\* the variables of the campaign, sampler and analysis objects
campaign == <<pc, pass, tol, minrefs, maxrefs, counter, error, i, l_norm,
              admissible_idx, samples, samples0, requested, outstanding,
              adaptation_errors, returned, history_at_call, state_file,
              analysed_l_norm, look_aheads>>

\* the variables of refine_to_precision's frame
frame == <<tol, minrefs, maxrefs, samples0>>

\* the analysis state: accepted set, samples, error history
analysis_state == <<l_norm, samples, adaptation_errors>>

Last(s) == s[Len(s)]

\* no refinement is started at this history length (never reached by the
\* program: two calls of at most MaxRefs + 1 iterations each)
MaxHistory == 2 * (MaxRefs + 1) + 1

(***************************************************************************)
(* main (new campaign): the zero index has been sampled and the analysis   *)
(* object created; refine_campaign is about to run.                        *)
(***************************************************************************)
CampaignInit ==
    /\ pc = "call"
    /\ pass = 1
    /\ tol \in Tolerances
    /\ minrefs \in 0..MaxRefs
    /\ maxrefs \in 0..MaxRefs
    /\ counter = 0
    /\ error = <<1, 1>>
    /\ i = 0
    /\ l_norm = {ZeroIndex}
    /\ admissible_idx = {}
    /\ samples = generate_grid({ZeroIndex})
    /\ samples0 \in [1..Len(QoIs) -> SampleValues]
    /\ requested = {}
    /\ outstanding = 0
    /\ adaptation_errors = <<>>
    /\ returned = <<>>
    /\ history_at_call = 0
    /\ state_file = <<>>
    /\ analysed_l_norm = {ZeroIndex}
    /\ look_aheads = 0

\* no run is being decoded
DecoderIdle ==
    /\ dpc = "idle"
    /\ vels = <<>>
    /\ blobInfo = <<>>

Init == CampaignInit /\ DecoderIdle

(***************************************************************************)
(* refine_to_precision                                                     *)
(***************************************************************************)
\* variant: the working error starts from the latest entry of the history
InitialError_FromHistory ==
    IF Len(adaptation_errors) > 0
      THEN <<Last(adaptation_errors), samples0[pass]>>
      ELSE <<1, 1>>

\* error = 1
InitialError == <<1, 1>>

\* counter = 0; error = 1
rtp_begin ==
    /\ pc = "call"
    /\ counter' = 0
    /\ error' = InitialError
    /\ history_at_call' = Len(adaptation_errors)
    /\ pc' = "while"
    /\ UNCHANGED <<decoder, pass, frame, i, analysis_state, admissible_idx, requested,
                   outstanding, returned, state_file, analysed_l_norm,
                   look_aheads>>

\* variant: the loop test without the minrefs disjunct
LoopCondition_NoMin == GT(error, tol) /\ counter <= maxrefs

\* variant: the loop test without the maxrefs conjunct
LoopCondition_NoMax == counter < minrefs \/ GT(error, tol)

\* counter < minrefs or (error > tol and counter <= maxrefs)
LoopCondition == counter < minrefs \/ (GT(error, tol) /\ counter <= maxrefs)

\* the while test: enter refine_sampling_plan(1, ...) or fall through to return
rtp_while ==
    /\ pc = "while"
    /\ IF LoopCondition
         THEN pc' = "for" /\ i' = 0
         ELSE pc' = "return" /\ i' = i
    /\ UNCHANGED <<decoder, pass, frame, counter, error, analysis_state, admissible_idx,
                   requested, outstanding, returned, history_at_call,
                   state_file, analysed_l_norm, look_aheads>>

(***************************************************************************)
(* refine_sampling_plan                                                    *)
(***************************************************************************)
\* for i in range(number_of_refinements)
rsp_for ==
    /\ pc = "for"
    /\ pc' = IF i < NumberOfRefinements THEN "look_ahead" ELSE "update"
    /\ UNCHANGED <<decoder, pass, frame, counter, error, i, analysis_state,
                   admissible_idx, requested, outstanding, returned,
                   history_at_call, state_file, analysed_l_norm, look_aheads>>

\* variant: look_ahead called with the admissible indices counted as accepted
LookAheadArgument_WithAdmissible == l_norm \cup admissible_idx

\* the index set look_ahead is called with: analysis.l_norm
LookAheadArgument == l_norm

\* sampler.look_ahead(analysis.l_norm): new admissible set, and the points of
\* the grid of accepted and admissible indices that have no sample yet
rsp_look_ahead ==
    /\ pc = "look_ahead"
    /\ Len(adaptation_errors) < MaxHistory
    /\ admissible_idx' = look_ahead(LookAheadArgument)
    /\ requested' = generate_grid(l_norm \cup admissible_idx') \ samples
    /\ look_aheads' = look_aheads + 1
    /\ pc' = "execute"
    /\ UNCHANGED <<decoder, pass, frame, counter, error, i, analysis_state, outstanding,
                   returned, history_at_call, state_file, analysed_l_norm>>

\* campaign.execute(): one run per requested point
rsp_execute ==
    /\ pc = "execute"
    /\ outstanding' = Cardinality(requested)
    /\ pc' = "collate"
    /\ UNCHANGED <<decoder, pass, frame, counter, error, i, analysis_state,
                   admissible_idx, requested, returned, history_at_call,
                   state_file, analysed_l_norm, look_aheads>>

\* one run of the ensemble returns
run_returns ==
    /\ pc = "collate"
    /\ outstanding > 0
    /\ outstanding' = outstanding - 1
    /\ UNCHANGED <<decoder, pc, pass, frame, counter, error, i, analysis_state,
                   admissible_idx, requested, returned, history_at_call,
                   state_file, analysed_l_norm, look_aheads>>

\* variant: collate does not wait for the runs
CollateReady_NoWait == TRUE

\* collate blocks until every run of the ensemble has returned
CollateReady == outstanding = 0

\* .collate(progress_bar=True): the results of the whole ensemble are stored
rsp_collate ==
    /\ pc = "collate"
    /\ CollateReady
    /\ samples' = samples \cup requested
    /\ requested' = {}
    /\ pc' = "adapt"
    /\ UNCHANGED <<decoder, pass, frame, counter, error, i, l_norm, adaptation_errors,
                   admissible_idx, outstanding, returned, history_at_call,
                   state_file, analysed_l_norm, look_aheads>>

\* l is preferred to m: larger surplus, then lower index sum, then lexicographic
Preferred(sur, l, m) ==
    \/ sur[l] > sur[m]
    \/ /\ sur[l] = sur[m]
       /\ \/ IndexSum(l) < IndexSum(m)
          \/ IndexSum(l) = IndexSum(m) /\ LexLess(l, m)

\* the admissible index of maximum surplus
MaxSurplusIndex(sur) ==
    CHOOSE l \in DOMAIN sur : \A m \in DOMAIN sur \ {l} : Preferred(sur, l, m)

\* analysis.adapt_dimension(param, data_frame): accept the admissible index of
\* maximum surplus and append that surplus to the error history
rsp_adapt_dimension ==
    /\ pc = "adapt"
    /\ \E sur \in [admissible_idx -> SurplusValues] :
         LET l_star == MaxSurplusIndex(sur) IN
           /\ l_norm' = l_norm \cup {l_star}
           /\ adaptation_errors' = Append(adaptation_errors, sur[l_star])
    /\ i' = i + 1
    /\ pc' = "for"
    /\ UNCHANGED <<decoder, pass, frame, counter, error, samples, admissible_idx,
                   requested, outstanding, returned, history_at_call,
                   state_file, analysed_l_norm, look_aheads>>

\* counter += 1; error = get_adaptation_errors()[-1] / samples[param][0]
rtp_update ==
    /\ pc = "update"
    /\ counter' = counter + 1
    /\ error' = <<Last(adaptation_errors), samples0[pass]>>
    /\ pc' = "while"
    /\ UNCHANGED <<decoder, pass, frame, i, analysis_state, admissible_idx, requested,
                   outstanding, returned, history_at_call, state_file,
                   analysed_l_norm, look_aheads>>

(***************************************************************************)
(* refine_campaign                                                         *)
(***************************************************************************)
\* return counter: atRefs after the 'maxV' pass, mlRefs after the 'maxX' pass
rtp_return ==
    /\ pc = "return"
    /\ returned' = Append(returned, counter)
    /\ IF pass < Len(QoIs)
         THEN pass' = pass + 1 /\ pc' = "call"
         ELSE pass' = pass /\ pc' = "apply_analysis"
    /\ UNCHANGED <<decoder, frame, counter, error, i, analysis_state, admissible_idx,
                   requested, outstanding, history_at_call, state_file,
                   analysed_l_norm, look_aheads>>

\* campaign.apply_analysis(analysis) and the save of refinements.txt
rc_apply_analysis ==
    /\ pc = "apply_analysis"
    /\ analysed_l_norm' = l_norm
    /\ pc' = "save_state"
    /\ UNCHANGED <<decoder, pass, frame, counter, error, i, analysis_state,
                   admissible_idx, requested, outstanding, returned,
                   history_at_call, state_file, look_aheads>>

(***************************************************************************)
(* main: save_state at the end of a new campaign, load_analysis at the     *)
(* start of an analysis run.                                               *)
(***************************************************************************)
main_save_state ==
    /\ pc = "save_state"
    /\ state_file' = <<l_norm, samples, adaptation_errors>>
    /\ pc' = "load_analysis"
    /\ UNCHANGED <<decoder, pass, frame, counter, error, i, analysis_state,
                   admissible_idx, requested, outstanding, returned,
                   history_at_call, analysed_l_norm, look_aheads>>

\* variant: a new analysis object whose state is never loaded
load_analysis_Fresh ==
    /\ pc = "load_analysis"
    /\ l_norm' = {ZeroIndex}
    /\ samples' = samples
    /\ adaptation_errors' = <<>>
    /\ pc' = "print_errors"
    /\ UNCHANGED <<decoder, pass, frame, counter, error, i, admissible_idx, requested,
                   outstanding, returned, history_at_call, state_file,
                   analysed_l_norm, look_aheads>>

\* analysis = SCAnalysis(...); analysis.load_state(.../analysis.state)
load_analysis ==
    /\ pc = "load_analysis"
    /\ l_norm' = state_file[1]
    /\ samples' = state_file[2]
    /\ adaptation_errors' = state_file[3]
    /\ pc' = "print_errors"
    /\ UNCHANGED <<decoder, pass, frame, counter, error, i, admissible_idx, requested,
                   outstanding, returned, history_at_call, state_file,
                   analysed_l_norm, look_aheads>>

(***************************************************************************)
(* analyse_campaign                                                        *)
(***************************************************************************)
\* print(analysis.get_adaptation_errors())
ac_print_errors ==
    /\ pc = "print_errors"
    /\ pc' = "merge"
    /\ UNCHANGED <<decoder, pass, frame, counter, error, i, analysis_state,
                   admissible_idx, requested, outstanding, returned,
                   history_at_call, state_file, analysed_l_norm, look_aheads>>

\* analysis.merge_accepted_and_admissible()
ac_merge_accepted_and_admissible ==
    /\ pc = "merge"
    /\ l_norm' = l_norm \cup admissible_idx
    /\ pc' = "analyse"
    /\ UNCHANGED <<decoder, pass, frame, counter, error, i, samples, adaptation_errors,
                   admissible_idx, requested, outstanding, returned,
                   history_at_call, state_file, analysed_l_norm, look_aheads>>

\* frame = campaign.get_collation_result(); results = analysis.analyse(frame)
ac_analyse ==
    /\ pc = "analyse"
    /\ analysed_l_norm' = l_norm
    /\ pc' = "queries"
    /\ UNCHANGED <<decoder, pass, frame, counter, error, i, analysis_state,
                   admissible_idx, requested, outstanding, returned,
                   history_at_call, state_file, look_aheads>>

\* analysis.surrogate(...), get_sobol_indices(...), the plots and the
\* adaptation table: reads of the analysis object
ac_queries ==
    /\ pc = "queries"
    /\ pc' = "done"
    /\ UNCHANGED <<decoder, pass, frame, counter, error, i, analysis_state,
                   admissible_idx, requested, outstanding, returned,
                   history_at_call, state_file, analysed_l_norm, look_aheads>>

(***************************************************************************)
(* B2dDecoder                                                              *)
(***************************************************************************)
RECURSIVE MaxFrom(_, _, _)
MaxFrom(v, k, m) ==
    IF k > Len(v) THEN m
    ELSE MaxFrom(v, k + 1, IF v[k] > m THEN v[k] ELSE m)

\* max(vels) of a non-empty list: the first largest element
max(v) == MaxFrom(v, 2, v[1])

\* variant: the maximum compared with the first element of the list
peak_reached_First(v) == max(v) # v[1]

\* if max(vels) != vels[-1]: return True / else: return False
peak_reached(v) == IF max(v) # Last(v) THEN TRUE ELSE FALSE

\* get_blob_info: maxV = float(max(v_x)); peaked = self.peak_reached(list(v_x));
\* blobInfo = {"maxV": maxV, ..., "peaked": peaked}
get_blob_info ==
    /\ dpc = "get_blob_info"
    /\ blobInfo' = [maxV |-> max(vels), peaked |-> peak_reached(vels)]
    /\ dpc' = "return"
    /\ UNCHANGED <<campaign, vels>>

\* parse_sim_output: outQtts = self.get_blob_info(out_path); return outQtts
parse_sim_output ==
    /\ dpc = "return"
    /\ dpc' = "decoded"
    /\ UNCHANGED <<campaign, vels, blobInfo>>

\* the output of one run is about to be decoded
DecoderInit ==
    /\ CampaignInit
    /\ tol = <<1, 100>>
    /\ minrefs = 0
    /\ maxrefs = 0
    /\ \A q \in 1..Len(QoIs) : samples0[q] = 1
    /\ dpc = "get_blob_info"
    /\ vels \in UNION {[1..n -> VelocityValues] : n \in 1..MaxVels}
    /\ blobInfo = <<>>

DecoderNext ==
    \/ get_blob_info
    \/ parse_sim_output

\* the decoding of one run's output
DecoderSpec == DecoderInit /\ [][DecoderNext]_vars

Next ==
    \/ rtp_begin
    \/ rtp_while
    \/ rsp_for
    \/ rsp_look_ahead
    \/ rsp_execute
    \/ run_returns
    \/ rsp_collate
    \/ rsp_adapt_dimension
    \/ rtp_update
    \/ rtp_return
    \/ rc_apply_analysis
    \/ main_save_state
    \/ load_analysis
    \/ ac_print_errors
    \/ ac_merge_accepted_and_admissible
    \/ ac_analyse
    \/ ac_queries

Spec == Init /\ [][Next]_vars

\* the initial states with one normalisation, the same for both QoIs
FairInit == Init /\ \A q \in 1..Len(QoIs) : samples0[q] = 1

\* the program is sequential and every call it makes returns (each run of an
\* ensemble included): a step that can be taken is taken
FairSpec == FairInit /\ [][Next]_vars /\ WF_vars(Next)

(***************************************************************************)
(* Properties.                                                             *)
(***************************************************************************)
RECURSIVE SeqSum(_)
SeqSum(s) == IF s = <<>> THEN 0 ELSE s[1] + SeqSum(Tail(s))

\* refinement iterations performed so far by the current call
Performed == Len(adaptation_errors) - history_at_call

\* a call of refine_to_precision has just returned
JustReturned == pc \in {"call", "apply_analysis"} /\ returned # <<>>

\* the positions of analyse_campaign
AnalysisPcs == {"print_errors", "merge", "analyse", "queries"}

\* C1: with minrefs <= maxrefs, a call of refine_to_precision never performs
\* more than maxrefs refinement iterations.
C1_AtMostMaxIterations ==
    (minrefs <= maxrefs /\ pc # "call") =>
        counter <= maxrefs /\ Performed <= maxrefs

\* C2: with minrefs = maxrefs = n a call performs exactly n iterations and
\* returns n, whatever the measured errors.
C2_ExactlyNWhenMinEqualsMax ==
    (minrefs = maxrefs /\ pc = "return") =>
        counter = maxrefs /\ Performed = maxrefs

\* C3: a call of refine_to_precision returns only after at least minrefs
\* refinement iterations, also when the error was at or below the tolerance
\* after an earlier iteration.
C3_AtLeastMinIterations ==
    pc = "return" => counter >= minrefs /\ Performed >= minrefs

\* C3 witness: a call returns after minrefs >= 2 iterations although the error
\* of its first iteration was already at or below the tolerance
C3_Witness ==
    /\ pc = "return"
    /\ minrefs >= 2
    /\ counter = minrefs
    /\ Performed = minrefs
    /\ LE(<<adaptation_errors[history_at_call + 1], samples0[pass]>>, tol)

\* C4 (as stated): after every call of refine_to_precision returns, the length
\* of the adaptation-error history equals the count that call returned.
C4_HistoryLengthIsReturnedCount ==
    JustReturned => Len(adaptation_errors) = Last(returned)

\* C4 (amended): after every call returns, the history has grown during that
\* call by exactly the count it returned, so its length is the sum of the
\* counts returned so far; it equals the returned count when the history was
\* empty at the start of the call.
C4_HistoryGrowsByReturnedCount ==
    JustReturned =>
        /\ Len(adaptation_errors) - history_at_call = Last(returned)
        /\ Len(adaptation_errors) = SeqSum(returned)
        /\ (history_at_call = 0 => Len(adaptation_errors) = Last(returned))

\* C4 witness: the second pass has returned and both passes refined
C4_Witness ==
    /\ pc = "apply_analysis"
    /\ Len(returned) = 2
    /\ returned[1] > 0
    /\ returned[2] > 0
    /\ Len(adaptation_errors) = returned[1] + returned[2]

\* C5: every call of refine_to_precision eventually returns its iteration
\* count, also when the error stays above the tolerance: both passes return.
C5_Terminates == <>(Len(returned) = Len(QoIs))

\* C5 witness: a call returns its count although the error is still above the
\* tolerance (non-convergence)
C5_Witness ==
    /\ pc = "apply_analysis"
    /\ Len(returned) = Len(QoIs)
    /\ GT(error, tol)
    /\ Last(returned) = counter

\* the first call of refine_sampling_plan has just returned
AfterFirstRefineOnce == pc = "update" /\ pass = 1 /\ counter = 0

\* C6 (as stated): after one refine_once from the zero index in two
\* dimensions the accepted set has size 3 and the samples have size 3.
C6_ThreeAcceptedThreeSamples ==
    AfterFirstRefineOnce =>
        Cardinality(l_norm) = 3 /\ Cardinality(samples) = 3

\* C6 (amended): after one refine_once from the zero index in two dimensions
\* the accepted set has size 2 (the zero index and the one unit neighbour of
\* maximum surplus), the admissible set holds the two unit neighbours, so that
\* accepted and admissible indices together are 3, and the samples are the 5
\* points of the grid of these three indices.
C6_TwoAcceptedFiveSamples ==
    AfterFirstRefineOnce =>
        /\ Cardinality(l_norm) = 2
        /\ ZeroIndex \in l_norm
        /\ l_norm \subseteq {ZeroIndex} \cup admissible_idx
        /\ admissible_idx = ForwardNeighbours(ZeroIndex)
        /\ Cardinality(l_norm \cup admissible_idx) = 3
        /\ samples = generate_grid({ZeroIndex} \cup ForwardNeighbours(ZeroIndex))
        /\ Cardinality(samples) = 5

\* C6 witness: one refine_once has been done and accepted a unit neighbour
C6_Witness ==
    /\ AfterFirstRefineOnce
    /\ Len(adaptation_errors) = 1
    /\ l_norm = {ZeroIndex, <<1, 0>>}

\* C7 (as stated): only a refinement iteration changes the accepted set; the
\* operations of analyse_campaign leave accepted set, samples and history
\* unchanged, and the analysis works on the accepted set refinement left.
C7_OnlyRefinementChangesAccepted ==
    [][/\ (l_norm' # l_norm => pc = "adapt")
       /\ (pc \in AnalysisPcs => UNCHANGED analysis_state)
       /\ (pc = "analyse" => analysed_l_norm' = state_file[1])]_vars

\* C7 (amended): the accepted set is changed only by adapt_dimension and by
\* merge_accepted_and_admissible at the start of analyse_campaign, which adds
\* the admissible set to it; loading the state and every other operation of
\* analyse_campaign leave it unchanged, none of them changes the samples or
\* the error history, and the analysis works on the accepted set of the last
\* refinement iteration united with the admissible set.
C7_OnlyRefinementAndMergeChangeAccepted ==
    [][/\ (l_norm' # l_norm => pc \in {"adapt", "merge"})
       /\ (pc = "merge" => l_norm' = l_norm \cup admissible_idx)
       /\ (pc \in AnalysisPcs \cup {"load_analysis"} =>
              samples' = samples /\ adaptation_errors' = adaptation_errors)
       /\ (pc = "analyse" =>
              analysed_l_norm' = state_file[1] \cup admissible_idx)]_vars

\* C7 witness: analyse_campaign has finished on an accepted set that the merge
\* made larger than the one refinement left
C7_Witness ==
    /\ pc = "done"
    /\ state_file[1] # l_norm
    /\ analysed_l_norm = l_norm
    /\ Len(adaptation_errors) > 0

\* C8: adapt_dimension starts only when every run of the iteration's ensemble
\* has returned and all points of the grid are collated, and a look_ahead
\* starts only when the acceptance of every earlier look_ahead is complete.
C8_StepsInOrder ==
    /\ pc = "adapt" =>
          /\ outstanding = 0
          /\ requested = {}
          /\ generate_grid(l_norm \cup admissible_idx) \subseteq samples
    /\ pc = "look_ahead" => outstanding = 0 /\ requested = {}
    /\ look_aheads = Len(adaptation_errors)
                       + (IF pc \in {"execute", "collate", "adapt"} THEN 1 ELSE 0)

\* C8 witness: adapt_dimension is about to run in a later iteration of the
\* second pass, after an ensemble of new points was collated
C8_Witness ==
    /\ pc = "adapt"
    /\ pass = 2
    /\ history_at_call > 0
    /\ Performed > 0
    /\ Cardinality(samples) > 5

\* C9: the accepted set never loses an index, is not changed between the two
\* passes, grows only by an index that look_ahead returns for it, and is
\* downward-closed in every state.
C9_AcceptedGrowsDownwardClosed ==
    /\ DownwardClosed(l_norm)
    /\ [][/\ l_norm \subseteq l_norm'
          /\ DownwardClosed(l_norm')
          /\ (pc \in {"return", "call"} => l_norm' = l_norm)
          /\ (pc = "adapt" => l_norm' \ l_norm \subseteq look_ahead(l_norm))]_vars

\* C9 witness: the second pass has accepted an index beyond the unit neighbours
C9_Witness ==
    /\ pass = 2
    /\ pc = "for"
    /\ Performed > 0
    /\ \E l \in l_norm : IndexSum(l) >= 2

C11_PeakedIffLastBelowMax ==
    dpc \in {"return", "decoded"} =>
        /\ blobInfo.peaked = (\E k \in 1..Len(vels) : vels[k] > Last(vels))
        /\ ((\A k \in 1..Len(vels) : vels[k] <= Last(vels)) => ~blobInfo.peaked)
        /\ (Len(vels) = 1 => ~blobInfo.peaked)
        /\ \A k \in 1..Len(vels) : vels[k] <= blobInfo.maxV
        /\ \E k \in 1..Len(vels) : vels[k] = blobInfo.maxV

\* C11 witness: a run is decoded as not peaked whose last velocity is the
\* maximum, which also occurs earlier, after a smaller one in between
C11_Witness ==
    /\ dpc = "decoded"
    /\ Len(vels) = 3
    /\ vels[1] = vels[3]
    /\ vels[2] < vels[3]
    /\ blobInfo.peaked = FALSE
    /\ blobInfo.maxV = vels[3]

====
